---- MODULE Spec2Model ----
(***************************************************************************)
(* Ralph Loop Arena backend (backend/server.py): the battle / agent        *)
(* lifecycle, the blocking and the streaming iterate handlers, the         *)
(* keep-alive ticker of a stream and the durable battle rows.              *)
(*                                                                         *)
(* Texts are sequences of tokens; len(text) is the number of tokens and    *)
(* "kw in text" is token membership.  success_count is kept in halves      *)
(* (2 = 1.0, 1 = 0.5) so that the += 0.5 of the code stays exact.          *)
(* An Iteration's timestamp is wall-clock text and is left out.            *)
(* Time is counted in ticks, TicksPerSecond of them to a second.  Spec,    *)
(* SpecBattle and SpecPair make fewer requests than the limiter's default  *)
(* capacity and run with RATE_LIMIT_ENABLED = false; SpecLimiter runs with *)
(* it true and a small capacity.                                           *)
(***************************************************************************)
EXTENDS Integers, Sequences, FiniteSets, TLC

(* ------------------------------ bounds --------------------------------- *)
\* most Iterations recorded over all agents of all battles at one time,
\* in SpecBattle and in Spec
MaxIter == 3
MaxRecorded == 1
\* most Iterations recorded over the two battles of SpecPair
MaxPair == 2
\* most Iterations on record in SpecOverlap and in SpecRace
MaxOverlap == 2
\* most fragments the streaming provider cuts one completion into
MaxChunks == 2
\* most sleeps of one heartbeat_worker that elapse
MaxTicks == 1
\* most sleeps of one heartbeat_worker that elapse in SpecStream
MaxBurst == 3
\* time.time() resolves this many instants per second
TicksPerSecond == 2
\* the environment's RATE_LIMIT_REQUESTS_PER_HOUR
RATE_LIMIT_REQUESTS_PER_HOUR == 2

(* ------------------------------ inputs --------------------------------- *)
BattleIds == {"b1"}
\* the ids uuid4 may give when two battles are created
PairIds == {"b1", "b2"}
\* requests that can be in flight at once
Slots == {1, 2}
\* the slot used when requests are served one at a time
OneAtATime == {1}
AgentTypes == {"traditional", "ralph"}
\* agent_type path parameters a caller may send
AgentParams == AgentTypes \cup {"invalid"}
\* battle_id path parameters a caller may send
BattleParams == BattleIds \cup {"no-such-battle"}
\* task ids a caller may send to create_battle
TaskParams == {"rest-api", "no-such-task"}
\* what get_client_ip may return
Clients == {"10.0.0.1", "10.0.0.2"}
\* the client of every request when the limiter is off
OneClient == {"10.0.0.1"}
\* what the completion provider may answer: the text (a sequence of lines),
\* the token usage it reports and the wall-clock time the call took, in ms
Completions ==
  { [content |-> <<"const app = express();", "// endpoints, status codes, validation">>,
     total_tokens |-> 3, ms |-> 2],
    [content |-> <<"const app = express();", "// endpoints, status codes">>,
     total_tokens |-> 2, ms |-> 1],
    [content |-> <<"[fence]", "app.post('/users') // endpoints">>,
     total_tokens |-> 2, ms |-> 1] }

\* the substrings of interest (criterion keywords, code markers) of a line
Substrings(line) ==
  CASE line = "const app = express();" -> {"const "}
    [] line = "// endpoints, status codes, validation" ->
         {"endpoints", "status", "codes", "validation"}
    [] line = "// endpoints, status codes" -> {"endpoints", "status", "codes"}
    [] line = "app.post('/users') // endpoints" -> {"endpoints"}
    [] line = "[fence]" -> {"[fence]"}
    [] line = "The endpoints return status codes after validation" ->
         {"endpoints", "status", "codes", "validation"}
    [] line = "const [todos, setTodos] = useState([]);" -> {"const ", "todos", "state"}
    [] line = "function remove(id) { /* delete, state */ }" ->
         {"function ", "delete", "state"}
    [] line = "def add(todos): pass" -> {"def ", "todos"}
    [] line = "// delete" -> {"delete"}
    [] line = "Keep the todos in a list" -> {"todos"}
    [] OTHER -> {}

\* the word a line starts with, after strip()
FirstWord(line) ==
  CASE line = "const app = express();" -> "const"
    [] line = "const [todos, setTodos] = useState([]);" -> "const"
    [] line = "function remove(id) { /* delete, state */ }" -> "function"
    [] line = "def add(todos): pass" -> "def"
    [] OTHER -> "other"

(* --------------------------- task catalogue ---------------------------- *)
\* TASKS[0] and TASKS[1]: keywords are the words of each criterion longer
\* than 3 chars.  The other three tasks have four criteria, as TASKS[1] has
TASKS ==
  [ x \in {"rest-api", "todo-component"} |->
      IF x = "rest-api"
      THEN [ id |-> "rest-api",
             acceptance_criteria |->
               << {"endpoints", "work", "correctly"},
                  {"proper", "http", "status", "codes"},
                  {"basic", "validation", "implemented"} >>,
             prompt_template |-> <<"Create a Node.js Express REST API">> ]
      ELSE [ id |-> "todo-component",
             acceptance_criteria |->
               << {"todos"},
                  {"mark", "todos", "complete"},
                  {"delete", "todos"},
                  {"proper", "state", "management"} >>,
             prompt_template |-> <<"Create a React functional component">> ] ]

\* for t in TASKS: if t.id == task_id
TaskKnown(task_id) == task_id \in DOMAIN TASKS

(* ----------------------------- pure helpers ---------------------------- *)
RECURSIVE SumLen(_)
\* sum(len(m["content"]) for m in messages)
SumLen(ms) ==
  IF ms = <<>> THEN 0 ELSE Len(Head(ms).content) + SumLen(Tail(ms))

\* text[:n]
Take(s, n) == SubSeq(s, 1, IF Len(s) < n THEN Len(s) ELSE n)

MessageMax == 500
SnippetChars == 300
SnippetLines == 20

\* full_response[:500] + "..." if len(full_response) > 500 else full_response
TruncateMessage(text) ==
  IF Len(text) > MessageMax THEN Take(text, MessageMax) \o <<"...">> ELSE text

\* the three-backquote code fence of a response, as one token
FENCE == "[fence]"
CodeMarkers == {FENCE, "def ", "function ", "const "}
CodeOpeners == {"def", "function", "const", "import", "from"}

\* sub in text
Occurs(sub, text) == \E i \in DOMAIN text : sub \in Substrings(text[i])

\* a criterion is met when one of its keywords occurs in the response
CriteriaMet(response, task) ==
  Cardinality({ i \in DOMAIN task.acceptance_criteria :
                  \E kw \in task.acceptance_criteria[i] : Occurs(kw, response) })

\* evaluate_response that asks for code only for a success
evaluate_response_partial_without_code(response, task) ==
  LET criteria_met == CriteriaMet(response, task)
      n == Len(task.acceptance_criteria)
      has_code == \E m \in CodeMarkers : Occurs(m, response)
  IN  IF criteria_met * 10 >= n * 7 /\ has_code THEN "success"
      ELSE IF criteria_met * 10 >= n * 4 THEN "partial"
      ELSE "failure"

evaluate_response(response, task) ==
  LET criteria_met == CriteriaMet(response, task)
      n == Len(task.acceptance_criteria)
      has_code == \E m \in CodeMarkers : Occurs(m, response)
  IN  IF criteria_met * 10 >= n * 7 /\ has_code THEN "success"
      ELSE IF criteria_met * 10 >= n * 4 /\ has_code THEN "partial"
      ELSE "failure"

\* index of the first fence at or after position i, 0 when there is none
RECURSIVE FenceFrom(_, _)
FenceFrom(s, i) ==
  IF i > Len(s) THEN 0 ELSE IF s[i] = FENCE THEN i ELSE FenceFrom(s, i + 1)

\* parts[1] of response.split(fence), first line dropped unless it opens
\* code, at most 20 lines; without a fence the first 300 characters
extract_code_snippet(response) ==
  LET f1 == FenceFrom(response, 1) IN
  IF f1 # 0
  THEN LET f2 == FenceFrom(response, f1 + 1)
           code == SubSeq(response, f1 + 1, IF f2 = 0 THEN Len(response) ELSE f2 - 1)
           lines == IF code # <<>> /\ FirstWord(Head(code)) \notin CodeOpeners
                    THEN Tail(code) ELSE code
       IN  Take(lines, SnippetLines)
  ELSE IF Len(response) > SnippetChars
       THEN Take(response, SnippetChars) \o <<"...">>
       ELSE response

(* -------------------------------- state -------------------------------- *)
VARIABLES
  active_battles,   \* battle id -> [battle, traditional_history, ralph_state_file]
  db,               \* the battles table: battle id -> row
  req,              \* slot -> the locals and position of the request in flight
  heartbeat_task,   \* slot -> state of the stream's keep-alive task
  rate_limit_store, \* client ip -> the timestamps of its admitted requests
  now,              \* what time.time() returns, in ticks
  observed          \* what the clients have seen of the limiter (not in the code)

vars == <<active_battles, db, req, heartbeat_task, rate_limit_store, now, observed>>
\* the limiter's part of the state
limiter == <<rate_limit_store, now, observed>>

\* AgentState(agent_type=..., status="idle") with the model defaults
AgentState(agent_type) ==
  [ agent_type |-> agent_type, status |-> "idle", iterations |-> <<>>,
    total_tokens |-> 0, success_count |-> 0, failure_count |-> 0,
    current_context_size |-> 0, total_time_ms |-> 0 ]

\* Battle(task_id=..., status="idle"), winner defaults to None
Battle(task_id) ==
  [ task_id |-> task_id,
    traditional_agent |-> AgentState("traditional"),
    ralph_agent |-> AgentState("ralph"),
    status |-> "idle", winner |-> "none" ]

\* the columns an UPDATE / INSERT of the whole battle writes
Row(battle) ==
  [ traditional_agent |-> battle.traditional_agent,
    ralph_agent |-> battle.ralph_agent,
    status |-> battle.status, winner |-> battle.winner ]

\* f"{agent_type}_agent"
AgentKey(agent_type) ==
  IF agent_type = "traditional" THEN "traditional_agent" ELSE "ralph_agent"

OtherAgent(agent_type) ==
  IF agent_type = "traditional" THEN "ralph_agent" ELSE "traditional_agent"

\* a slot with no request in it.  Besides the handler's locals a slot keeps
\* what is observed of the request: events (the frames yielded), result (the
\* HTTP status), failure (which await raised), cancelled (the client left),
\* mutated (the battle was written) and pre (active_battles at entry).
\* agent_state is empty while the local agent_state is the dict the battle
\* holds at agent_key, and the one-element list of the dict the local still
\* refers to once the battle holds another dict there; iteration is empty
\* until the local iteration is created
NoRequest ==
  [ kind |-> "none", pc |-> "none", battle_id |-> "none", agent_type |-> "none",
    current_iteration |-> 0, agent_state |-> <<>>, iteration |-> <<>>,
    messages |-> <<>>, full_response |-> <<>>,
    pending |-> <<>>, ms |-> 0, fragments |-> <<>>, events |-> <<>>,
    heartbeat_queue |-> 0, ticks |-> 0, streaming_active |-> FALSE,
    mutated |-> FALSE, failure |-> "none", cancelled |-> FALSE,
    result |-> 0, retry_after |-> 0, pre |-> <<>> ]

(* ---------------------------- rate limiter ----------------------------- *)
\* the window of check_rate_limit, in seconds
Window == 3600

\* the instants, in ticks, at which requests arrive: the start, one tick
\* later, and one tick before and exactly one window after the start
Instants == {0, 1, Window * TicksPerSecond - 1, Window * TicksPerSecond}

\* min(rate_limit_store[ip])
MinOf(s) == CHOOSE x \in {s[i] : i \in DOMAIN s} : \A i \in DOMAIN s : x <= s[i]

\* check_rate_limit that rejects only when more than the capacity is in the
\* window
check_rate_limit_above_capacity(ip, enabled) ==
  IF ~enabled
  THEN [ is_allowed |-> TRUE, remaining |-> RATE_LIMIT_REQUESTS_PER_HOUR,
         reset_time |-> Window, store |-> rate_limit_store ]
  ELSE LET current_time == now
           hour_ago == current_time - Window * TicksPerSecond
           store == IF ip \in DOMAIN rate_limit_store
                    THEN [rate_limit_store EXCEPT
                            ![ip] = SelectSeq(@, LAMBDA timestamp : timestamp > hour_ago)]
                    ELSE rate_limit_store @@ (ip :> <<>>)
           request_count == Len(store[ip])
       IN  IF request_count > RATE_LIMIT_REQUESTS_PER_HOUR
           THEN [ is_allowed |-> FALSE, remaining |-> 0,
                  reset_time |->
                    (Window * TicksPerSecond - (current_time - MinOf(store[ip])))
                      \div TicksPerSecond,
                  store |-> store ]
           ELSE [ is_allowed |-> TRUE,
                  remaining |-> RATE_LIMIT_REQUESTS_PER_HOUR - request_count - 1,
                  reset_time |-> Window,
                  store |-> [store EXCEPT ![ip] = Append(@, current_time)] ]

\* check_rate_limit(ip) at time.time() = now: (is_allowed, remaining,
\* reset_time) and the store it leaves behind.  rate_limit_store is a
\* defaultdict(list): reading a missing key creates an empty bucket.
\* int() of a positive number of seconds is the whole seconds in it
check_rate_limit(ip, enabled) ==
  IF ~enabled
  THEN [ is_allowed |-> TRUE, remaining |-> RATE_LIMIT_REQUESTS_PER_HOUR,
         reset_time |-> Window, store |-> rate_limit_store ]
  ELSE LET current_time == now
           hour_ago == current_time - Window * TicksPerSecond
           store == IF ip \in DOMAIN rate_limit_store
                    THEN [rate_limit_store EXCEPT
                            ![ip] = SelectSeq(@, LAMBDA timestamp : timestamp > hour_ago)]
                    ELSE rate_limit_store @@ (ip :> <<>>)
           request_count == Len(store[ip])
       IN  IF request_count >= RATE_LIMIT_REQUESTS_PER_HOUR
           THEN [ is_allowed |-> FALSE, remaining |-> 0,
                  reset_time |->
                    IF store[ip] # <<>>
                    THEN (Window * TicksPerSecond - (current_time - MinOf(store[ip])))
                           \div TicksPerSecond
                    ELSE Window,
                  store |-> store ]
           ELSE [ is_allowed |-> TRUE,
                  remaining |-> RATE_LIMIT_REQUESTS_PER_HOUR - request_count - 1,
                  reset_time |-> Window,
                  store |-> [store EXCEPT ![ip] = Append(@, current_time)] ]

\* what a client has seen: the instants its requests were admitted at and
\* the outcome of its last request
NoOutcome == [at |-> 0, is_allowed |-> TRUE, reset_time |-> 0]

\* requests admitted at the instants of log that lie in (t - Window, t]
InWindow(log, t) ==
  Cardinality({ i \in DOMAIN log :
                  log[i] > t - Window * TicksPerSecond /\ log[i] <= t })

Observe(ip, c) ==
  [observed EXCEPT ![ip] =
     [ admitted |-> IF c.is_allowed THEN Append(@.admitted, now) ELSE @.admitted,
       last |-> [ at |-> now, is_allowed |-> c.is_allowed,
                  reset_time |-> c.reset_time ] ]]

Init ==
  /\ active_battles = <<>>
  /\ db = <<>>
  /\ req = [r \in Slots |-> NoRequest]
  /\ heartbeat_task = [r \in Slots |-> "none"]
  /\ rate_limit_store = <<>>
  /\ now = 0
  /\ observed = [ip \in Clients |-> [admitted |-> <<>>, last |-> NoOutcome]]

\* no handler is between its first and its last step
Quiet == \A r \in Slots : req[r].pc = "none"

\* Iterations recorded over all battles and agents, and in the dicts that
\* only the locals of handlers in flight still hold
Recorded ==
  LET n(b) == Len(active_battles[b].battle.traditional_agent.iterations)
              + Len(active_battles[b].battle.ralph_agent.iterations)
      held(r) == IF req[r].agent_state = <<>> THEN 0
                 ELSE Len(req[r].agent_state[1].iterations)
      RECURSIVE Sum(_, _)
      Sum(f(_), S) == IF S = {} THEN 0 ELSE LET x == CHOOSE y \in S : TRUE
                                            IN  f(x) + Sum(f, S \ {x})
  IN  Sum(n, DOMAIN active_battles) + Sum(held, Slots)

\* UPDATE battles SET traditional_agent, ralph_agent, status, winner WHERE id
UpdateRow(rows, battle_id, battle) ==
  IF battle_id \in DOMAIN rows
  THEN [rows EXCEPT ![battle_id] = Row(battle)]
  ELSE rows

\* the dict the local agent_state of request q refers to
Local(q) ==
  IF q.agent_state = <<>>
  THEN active_battles[q.battle_id].battle[AgentKey(q.agent_type)]
  ELSE q.agent_state[1]

\* the requests once the battle holds new dicts at keys: a handler in flight
\* whose local agent_state was the dict held there keeps that dict
Detach(rs, battle_id, keys) ==
  [ s \in Slots |->
      IF /\ rs[s].pc \notin {"none", "done"}
         /\ rs[s].battle_id = battle_id
         /\ AgentKey(rs[s].agent_type) \in keys
         /\ rs[s].agent_state = <<>>
      THEN [rs[s] EXCEPT !.agent_state =
              <<active_battles[battle_id].battle[AgentKey(rs[s].agent_type)]>>]
      ELSE rs[s] ]

(* ------------------------- lifecycle handlers -------------------------- *)
\* a handler that ran from entry to return in one step
Returned(kind, battle_id, result) ==
  [NoRequest EXCEPT !.kind = kind, !.pc = "done", !.battle_id = battle_id,
                    !.result = result, !.pre = active_battles]

\* POST /battles; id: what uuid4 returns; ok: the INSERT returns
create_battle(r, id, task_id, ok) ==
  /\ req[r].pc = "none"
  /\ IF ~TaskKnown(task_id)
     THEN /\ req' = [req EXCEPT ![r] = Returned("create", "none", 404)]
          /\ UNCHANGED <<active_battles, db>>
     ELSE /\ id \notin DOMAIN active_battles
          /\
            /\ active_battles' = active_battles @@
                 (id :> [ battle |-> Battle(task_id),
                          traditional_history |-> <<>>,
                          ralph_state_file |-> <<>> ])
            /\ db' = IF ok THEN db @@ (id :> Row(Battle(task_id))) ELSE db
            /\ req' = [req EXCEPT ![r] =
                 [Returned("create", id, IF ok THEN 200 ELSE 500)
                    EXCEPT !.mutated = TRUE]]
  /\ UNCHANGED heartbeat_task

\* start_battle that answers an unknown id with 404 after it has set every
\* battle to running
start_battle_unknown_starts_all(r, battle_id, ok) ==
  /\ req[r].pc = "none"
  /\ IF battle_id \notin DOMAIN active_battles
     THEN /\ req' = [req EXCEPT ![r] = Returned("start", battle_id, 404)]
          /\ active_battles' =
               [b \in DOMAIN active_battles |->
                  [active_battles[b] EXCEPT !.battle.status = "running"]]
          /\ UNCHANGED db
     ELSE /\ active_battles' =
               [active_battles EXCEPT
                  ![battle_id].battle.status = "running",
                  ![battle_id].battle.traditional_agent.status = "running",
                  ![battle_id].battle.ralph_agent.status = "running"]
          /\ db' = IF ok /\ battle_id \in DOMAIN db
                   THEN [db EXCEPT ![battle_id].status = "running"]
                   ELSE db
          /\ req' = [req EXCEPT ![r] =
               [Returned("start", battle_id, IF ok THEN 200 ELSE 500)
                  EXCEPT !.mutated = TRUE]]
  /\ UNCHANGED heartbeat_task

\* start_battle that also forgets the winner
start_battle_clears_winner(r, battle_id, ok) ==
  /\ req[r].pc = "none"
  /\ IF battle_id \notin DOMAIN active_battles
     THEN /\ req' = [req EXCEPT ![r] = Returned("start", battle_id, 404)]
          /\ UNCHANGED <<active_battles, db>>
     ELSE /\ active_battles' =
               [active_battles EXCEPT
                  ![battle_id].battle.status = "running",
                  ![battle_id].battle.winner = "none",
                  ![battle_id].battle.traditional_agent.status = "running",
                  ![battle_id].battle.ralph_agent.status = "running"]
          /\ db' = IF ok /\ battle_id \in DOMAIN db
                   THEN [db EXCEPT ![battle_id].status = "running"]
                   ELSE db
          /\ req' = [req EXCEPT ![r] =
               [Returned("start", battle_id, IF ok THEN 200 ELSE 500)
                  EXCEPT !.mutated = TRUE]]
  /\ UNCHANGED heartbeat_task

\* POST /battles/{battle_id}/start; ok: the UPDATE of the status returns
start_battle(r, battle_id, ok) ==
  /\ req[r].pc = "none"
  /\ IF battle_id \notin DOMAIN active_battles
     THEN /\ req' = [req EXCEPT ![r] = Returned("start", battle_id, 404)]
          /\ UNCHANGED <<active_battles, db>>
     ELSE /\ active_battles' =
               [active_battles EXCEPT
                  ![battle_id].battle.status = "running",
                  ![battle_id].battle.traditional_agent.status = "running",
                  ![battle_id].battle.ralph_agent.status = "running"]
          /\ db' = IF ok /\ battle_id \in DOMAIN db
                   THEN [db EXCEPT ![battle_id].status = "running"]
                   ELSE db
          /\ req' = [req EXCEPT ![r] =
               [Returned("start", battle_id, IF ok THEN 200 ELSE 500)
                  EXCEPT !.mutated = TRUE]]
  /\ UNCHANGED heartbeat_task

\* reset_battle that leaves ralph_state_file as it is
reset_battle_keeps_state_file(r, battle_id, ok) ==
  /\ req[r].pc = "none"
  /\ IF battle_id \notin DOMAIN active_battles
     THEN /\ req' = [req EXCEPT ![r] = Returned("reset", battle_id, 404)]
          /\ UNCHANGED <<active_battles, db>>
     ELSE LET old == active_battles[battle_id].battle
              battle == [old EXCEPT
                           !.traditional_agent = AgentState("traditional"),
                           !.ralph_agent = AgentState("ralph"),
                           !.status = "idle", !.winner = "none"]
          IN  /\ active_battles' =
                   [active_battles EXCEPT
                      ![battle_id].battle = battle,
                      ![battle_id].traditional_history = <<>>]
              /\ db' = IF ok THEN UpdateRow(db, battle_id, battle) ELSE db
              /\ req' = [Detach(req, battle_id, {"traditional_agent", "ralph_agent"})
                           EXCEPT ![r] =
                   [Returned("reset", battle_id, IF ok THEN 200 ELSE 500)
                      EXCEPT !.mutated = TRUE]]
  /\ UNCHANGED heartbeat_task

\* POST /battles/{battle_id}/reset; ok: the UPDATE of the row returns
reset_battle(r, battle_id, ok) ==
  /\ req[r].pc = "none"
  /\ IF battle_id \notin DOMAIN active_battles
     THEN /\ req' = [req EXCEPT ![r] = Returned("reset", battle_id, 404)]
          /\ UNCHANGED <<active_battles, db>>
     ELSE LET old == active_battles[battle_id].battle
              battle == [old EXCEPT
                           !.traditional_agent = AgentState("traditional"),
                           !.ralph_agent = AgentState("ralph"),
                           !.status = "idle", !.winner = "none"]
          IN  /\ active_battles' =
                   [active_battles EXCEPT
                      ![battle_id] = [ battle |-> battle,
                                       traditional_history |-> <<>>,
                                       ralph_state_file |-> <<>> ]]
              /\ db' = IF ok THEN UpdateRow(db, battle_id, battle) ELSE db
              /\ req' = [Detach(req, battle_id, {"traditional_agent", "ralph_agent"})
                           EXCEPT ![r] =
                   [Returned("reset", battle_id, IF ok THEN 200 ELSE 500)
                      EXCEPT !.mutated = TRUE]]
  /\ UNCHANGED heartbeat_task

\* what the provider may answer beyond Completions: prose without code,
\* code that meets no criterion, and answers to the todo task
Responses ==
  Completions \cup
  { [content |-> <<"The endpoints return status codes after validation">>,
     total_tokens |-> 2, ms |-> 1],
    [content |-> <<"[fence]", "x = 1">>, total_tokens |-> 1, ms |-> 1],
    [content |-> <<"const [todos, setTodos] = useState([]);">>,
     total_tokens |-> 2, ms |-> 1],
    [content |-> <<"def add(todos): pass">>, total_tokens |-> 1, ms |-> 1],
    [content |-> <<"function remove(id) { /* delete, state */ }">>,
     total_tokens |-> 2, ms |-> 1],
    [content |-> <<"[fence]", "// delete">>, total_tokens |-> 1, ms |-> 1],
    [content |-> <<"Keep the todos in a list">>, total_tokens |-> 1, ms |-> 1] }

\* the completions that pass the criteria of the task
Passing ==
  { c \in Completions : evaluate_response(c.content, TASKS["rest-api"]) = "success" }

(* --------------------------- context builder --------------------------- *)
\* the user turn that follows a replayed traditional attempt
FollowUp(status) ==
  [ role |-> "user",
    content |-> <<"The previous attempt had issues. Status:", status,
                  "Please fix and improve.">> ]

RECURSIVE Replay(_)
\* for prev in history: assistant turn with prev["response"], then the follow-up
Replay(history) ==
  IF history = <<>> THEN <<>>
  ELSE << [role |-> "assistant", content |-> Head(history).response],
          FollowUp(Head(history).status) >> \o Replay(Tail(history))

\* BuildMessages that replays only the latest traditional attempt
BuildMessagesLatestOnly(agent_type, current_iteration, battle_data, task) ==
  LET first == [role |-> "user", content |-> task.prompt_template]
      history == battle_data.traditional_history
  IN
  IF agent_type = "traditional"
  THEN IF current_iteration = 1 THEN <<first>>
       ELSE <<first>> \o Replay(SubSeq(history, Len(history), Len(history)))
  ELSE IF current_iteration = 1 THEN <<first>>
       ELSE << [ role |-> "user",
                 content |-> <<"TASK:">> \o task.prompt_template
                             \o <<"CURRENT STATE (from state file):">>
                             \o battle_data.ralph_state_file
                             \o <<"Continue from where you left off.">> ] >>

\* the messages of one call, from the battle's working state
BuildMessages(agent_type, current_iteration, battle_data, task) ==
  LET first == [role |-> "user", content |-> task.prompt_template] IN
  IF agent_type = "traditional"
  THEN IF current_iteration = 1 THEN <<first>>
       ELSE <<first>> \o Replay(battle_data.traditional_history)
  ELSE IF current_iteration = 1 THEN <<first>>
       ELSE << [ role |-> "user",
                 content |-> <<"TASK:">> \o task.prompt_template
                             \o <<"CURRENT STATE (from state file):">>
                             \o battle_data.ralph_state_file
                             \o <<"Continue from where you left off.">> ] >>

\* the text a ralph iteration leaves in ralph_state_file
StateFile(current_iteration, status, code_snippet) ==
  <<"Iteration", ToString(current_iteration), "completed.", "Status:", status,
    "Working code so far:">> \o code_snippet
  \o <<"Notes:", IF status = "success" THEN "Task completed successfully"
                 ELSE "Continue improving the implementation">>

(* ------------------------ recording an iteration ----------------------- *)
ContextSize(agent_type, messages, response) ==
  IF agent_type = "traditional"
  THEN SumLen(messages) + Len(response)
  ELSE Len(messages[1].content) + Len(response)

\* int(input_tokens + output_tokens), each side 1.3 per whitespace word
EstimateTokens(messages, response) ==
  (13 * (SumLen(messages) + Len(response))) \div 10

Iteration(current_iteration, context_size, tokens, ms, status, response) ==
  [ iteration_number |-> current_iteration, context_size |-> context_size,
    tokens_used |-> tokens, time_taken_ms |-> ms, status |-> status,
    code_snippet |-> extract_code_snippet(response),
    message |-> TruncateMessage(response) ]

\* UpdateAgentState with a success_count held as a whole number: the half
\* of a partial is rounded away
UpdateAgentStateWholeCount(agent_state, iteration) ==
  LET a == [agent_state EXCEPT
              !.iterations = Append(@, iteration),
              !.total_tokens = @ + iteration.tokens_used,
              !.total_time_ms = @ + iteration.time_taken_ms,
              !.current_context_size = iteration.context_size,
              !.status = "running"]
  IN  IF iteration.status = "success"
      THEN [a EXCEPT !.success_count = @ + 2, !.status = "completed"]
      ELSE IF iteration.status = "failure"
      THEN [a EXCEPT !.failure_count = @ + 1]
      ELSE a

\* UpdateAgentState that blanks the message of the Iterations recorded
\* before
UpdateAgentStateBlanksEarlier(agent_state, iteration) ==
  LET a == [agent_state EXCEPT
              !.iterations = Append([i \in DOMAIN @ |-> [@[i] EXCEPT !.message = <<>>]],
                                    iteration),
              !.total_tokens = @ + iteration.tokens_used,
              !.total_time_ms = @ + iteration.time_taken_ms,
              !.current_context_size = iteration.context_size,
              !.status = "running"]
  IN  IF iteration.status = "success"
      THEN [a EXCEPT !.success_count = @ + 2, !.status = "completed"]
      ELSE IF iteration.status = "failure"
      THEN [a EXCEPT !.failure_count = @ + 1]
      ELSE [a EXCEPT !.success_count = @ + 1]

\* UpdateAgentState that keeps the largest context_size seen
UpdateAgentStateLargestContext(agent_state, iteration) ==
  LET a == [agent_state EXCEPT
              !.iterations = Append(@, iteration),
              !.total_tokens = @ + iteration.tokens_used,
              !.total_time_ms = @ + iteration.time_taken_ms,
              !.current_context_size =
                 IF @ > iteration.context_size THEN @ ELSE iteration.context_size,
              !.status = "running"]
  IN  IF iteration.status = "success"
      THEN [a EXCEPT !.success_count = @ + 2, !.status = "completed"]
      ELSE IF iteration.status = "failure"
      THEN [a EXCEPT !.failure_count = @ + 1]
      ELSE [a EXCEPT !.success_count = @ + 1]

\* "Update agent state": append, totals, status, counters
UpdateAgentState(agent_state, iteration) ==
  LET a == [agent_state EXCEPT
              !.iterations = Append(@, iteration),
              !.total_tokens = @ + iteration.tokens_used,
              !.total_time_ms = @ + iteration.time_taken_ms,
              !.current_context_size = iteration.context_size,
              !.status = "running"]
  IN  IF iteration.status = "success"
      THEN [a EXCEPT !.success_count = @ + 2, !.status = "completed"]
      ELSE IF iteration.status = "failure"
      THEN [a EXCEPT !.failure_count = @ + 1]
      ELSE [a EXCEPT !.success_count = @ + 1]

\* UpdateWorkingState that keeps every agent's responses in
\* traditional_history
UpdateWorkingStateSharedHistory(battle_data, agent_type, iteration, response) ==
  IF agent_type = "traditional"
  THEN [battle_data EXCEPT
          !.traditional_history =
             Append(@, [response |-> response, status |-> iteration.status])]
  ELSE [battle_data EXCEPT
          !.traditional_history =
             Append(@, [response |-> response, status |-> iteration.status]),
          !.ralph_state_file =
             StateFile(iteration.iteration_number, iteration.status,
                       iteration.code_snippet)]

\* UpdateWorkingState that puts the latest response first in
\* traditional_history
UpdateWorkingStateLatestFirst(battle_data, agent_type, iteration, response) ==
  IF agent_type = "traditional"
  THEN [battle_data EXCEPT
          !.traditional_history =
             <<[response |-> response, status |-> iteration.status]>> \o @]
  ELSE [battle_data EXCEPT
          !.ralph_state_file =
             StateFile(iteration.iteration_number, iteration.status,
                       iteration.code_snippet)]

\* "Update history/state"
UpdateWorkingState(battle_data, agent_type, iteration, response) ==
  IF agent_type = "traditional"
  THEN [battle_data EXCEPT
          !.traditional_history =
             Append(@, [response |-> response, status |-> iteration.status])]
  ELSE [battle_data EXCEPT
          !.ralph_state_file =
             StateFile(iteration.iteration_number, iteration.status,
                       iteration.code_snippet)]

\* CheckWinner that withdraws the winner when the second agent completes
CheckWinnerNoneOnSecond(battle, agent_type) ==
  IF battle[AgentKey(agent_type)].status = "completed"
  THEN LET other_completed == battle[OtherAgent(agent_type)].status = "completed" IN
       [battle EXCEPT
          !.winner = IF ~other_completed THEN agent_type ELSE "none",
          !.status = IF other_completed THEN "completed" ELSE "running"]
  ELSE battle

\* CheckWinner that leaves a battle alone that was never started
CheckWinnerStartedOnly(battle, agent_type) ==
  IF battle[AgentKey(agent_type)].status = "completed" /\ battle.status # "idle"
  THEN LET other_completed == battle[OtherAgent(agent_type)].status = "completed" IN
       [battle EXCEPT
          !.winner = IF ~other_completed THEN agent_type ELSE @,
          !.status = IF other_completed THEN "completed" ELSE "running"]
  ELSE battle

\* "Check for winner"
CheckWinner(battle, agent_type) ==
  IF battle[AgentKey(agent_type)].status = "completed"
  THEN LET other_completed == battle[OtherAgent(agent_type)].status = "completed" IN
       [battle EXCEPT
          !.winner = IF ~other_completed THEN agent_type ELSE @,
          !.status = IF other_completed THEN "completed" ELSE "running"]
  ELSE battle

\* everything a handler does to the battle between the completion and the
\* database write; agent_state is the dict its local refers to, which it
\* updates and assigns to battle[agent_key]
Record(battle_data, agent_state, agent_type, iteration, response) ==
  LET key == AgentKey(agent_type)
      updated == UpdateAgentState(agent_state, iteration)
      bd == UpdateWorkingState(battle_data, agent_type, iteration, response)
  IN  [bd EXCEPT !.battle = CheckWinner([@ EXCEPT ![key] = updated], agent_type)]

\* battle[agent_key] = agent_state: the battle holds the dict of request r
\* again, and any other handler whose local was the dict held there keeps
\* that one
Rebind(r) ==
  LET q == req[r]
      rs == IF q.agent_state = <<>> THEN req
            ELSE Detach(req, q.battle_id, {AgentKey(q.agent_type)})
  IN  [rs EXCEPT ![r].agent_state = <<>>]

(* ----------------------- blocking iterate handler ---------------------- *)
\* the blocking handler as a function: what iterate_agent makes of
\* battle_data when call_claude returns response
iterate_agent_outcome(battle_data, agent_type, response) ==
  LET task == TASKS[battle_data.battle.task_id]
      current_iteration == Len(battle_data.battle[AgentKey(agent_type)].iterations) + 1
      messages == BuildMessages(agent_type, current_iteration, battle_data, task)
      status == evaluate_response(response.content, task)
      context_size == ContextSize(agent_type, messages, response.content)
      iteration == Iteration(current_iteration, context_size, response.total_tokens,
                             response.ms, status, response.content)
  IN  Record(battle_data, battle_data.battle[AgentKey(agent_type)], agent_type,
             iteration, response.content)

\* Admit numbering from the length of the list instead of the length + 1
AdmitFromLength(kind, battle_id, agent_type) ==
  IF battle_id \notin DOMAIN active_battles
  THEN [Returned(kind, battle_id, 404) EXCEPT !.agent_type = agent_type]
  ELSE IF agent_type \notin AgentTypes
  THEN [Returned(kind, battle_id, 400) EXCEPT !.agent_type = agent_type]
  ELSE [NoRequest EXCEPT
          !.kind = kind, !.pc = "admitted", !.pre = active_battles,
          !.battle_id = battle_id, !.agent_type = agent_type,
          !.current_iteration =
             Len(active_battles[battle_id].battle[AgentKey(agent_type)].iterations)]

\* the checks and the locals both iterate handlers start with
Admit(kind, battle_id, agent_type) ==
  IF battle_id \notin DOMAIN active_battles
  THEN [Returned(kind, battle_id, 404) EXCEPT !.agent_type = agent_type]
  ELSE IF agent_type \notin AgentTypes
  THEN [Returned(kind, battle_id, 400) EXCEPT !.agent_type = agent_type]
  ELSE [NoRequest EXCEPT
          !.kind = kind, !.pc = "admitted", !.pre = active_battles,
          !.battle_id = battle_id, !.agent_type = agent_type,
          !.current_iteration =
             Len(active_battles[battle_id].battle[AgentKey(agent_type)].iterations) + 1]

\* POST /battles/{battle_id}/iterate/{agent_type}, up to "await call_claude"
iterate_agent(r, battle_id, agent_type) ==
  /\ req[r].pc = "none"
  /\ LET q == Admit("blocking", battle_id, agent_type) IN
     req' = [req EXCEPT ![r] =
       IF q.pc = "done" THEN q
       ELSE [q EXCEPT
               !.pc = "await_claude",
               !.messages = BuildMessages(agent_type, q.current_iteration,
                              active_battles[battle_id],
                              TASKS[active_battles[battle_id].battle.task_id])]]
  /\ UNCHANGED <<active_battles, db, heartbeat_task>>

\* call_claude raises: HTTPException 500 leaves the handler
iterate_agent_upstream_failure(r) ==
  /\ req[r].kind = "blocking" /\ req[r].pc = "await_claude"
  /\ req' = [req EXCEPT ![r].pc = "done", ![r].result = 500,
                        ![r].failure = "upstream"]
  /\ UNCHANGED <<active_battles, db, heartbeat_task>>

\* call_claude returns: evaluate, record, up to "await conn.execute"
iterate_agent_record(r, response) ==
  /\ req[r].kind = "blocking" /\ req[r].pc = "await_claude"
  /\ LET q == req[r]
         battle_data == active_battles[q.battle_id]
         task == TASKS[battle_data.battle.task_id]
         status == evaluate_response(response.content, task)
         context_size == ContextSize(q.agent_type, q.messages, response.content)
         iteration == Iteration(q.current_iteration, context_size,
                                response.total_tokens, response.ms, status,
                                response.content)
     IN  /\ active_battles' = [active_battles EXCEPT ![q.battle_id] =
                                 Record(battle_data, Local(q), q.agent_type,
                                        iteration, response.content)]
         /\ req' = [Rebind(r) EXCEPT ![r].pc = "await_db", ![r].mutated = TRUE,
                                     ![r].iteration = <<iteration>>,
                                     ![r].full_response = response.content]
  /\ UNCHANGED <<db, heartbeat_task>>

\* the UPDATE of the battle row returns or raises
iterate_agent_persist(r, ok) ==
  /\ req[r].kind = "blocking" /\ req[r].pc = "await_db"
  /\ db' = IF ok THEN UpdateRow(db, req[r].battle_id,
                                active_battles[req[r].battle_id].battle)
           ELSE db
  /\ req' = [req EXCEPT ![r].pc = "done", ![r].result = IF ok THEN 200 ELSE 500,
                        ![r].failure = IF ok THEN "none" ELSE "persistence"]
  /\ UNCHANGED <<active_battles, heartbeat_task>>

\* the response has left and the slot is free again; a keep-alive task the
\* stream left running is no longer followed
Close(r) ==
  /\ req[r].pc = "done"
  /\ req' = [req EXCEPT ![r] = NoRequest]
  /\ heartbeat_task' = [heartbeat_task EXCEPT ![r] = "none"]
  /\ UNCHANGED <<active_battles, db>>

(* ---------------------- streaming iterate handler ---------------------- *)
RECURSIVE Fragmentations(_, _)
\* the ways the provider may cut a text into at most k non-empty fragments
Fragmentations(text, k) ==
  IF text = <<>> THEN {<<>>}
  ELSE IF k <= 1 THEN {<<text>>}
  ELSE UNION { { <<SubSeq(text, 1, i)>> \o rest :
                   rest \in Fragmentations(SubSeq(text, i + 1, Len(text)), k - 1) } :
               i \in 1..Len(text) }

\* one frame handed to the connection by a yield of generate_stream
Emit(q, event) == [q EXCEPT !.events = Append(@, event)]

\* the finally block: stop the keep-alive task
Cleanup(r) ==
  heartbeat_task' = [heartbeat_task EXCEPT ![r] =
                       IF @ = "running" THEN "cancelled" ELSE @]

\* GET /battles/{battle_id}/iterate/{agent_type}/stream, up to the return of
\* the StreamingResponse; generate_stream has not run yet
iterate_agent_stream(r, battle_id, agent_type) ==
  /\ req[r].pc = "none"
  /\ LET q == Admit("stream", battle_id, agent_type) IN
     req' = [req EXCEPT ![r] =
       IF q.pc = "done" THEN q ELSE [q EXCEPT !.pc = "created", !.result = 200]]
  /\ UNCHANGED <<active_battles, db, heartbeat_task>>

\* generate_stream from its first line to "yield start": the ticker is
\* created and the messages are built
generate_stream_start(r) ==
  /\ req[r].pc = "created"
  /\ LET q == req[r]
         battle_data == active_battles[q.battle_id]
     IN  req' = [req EXCEPT ![r] =
           Emit([q EXCEPT
                   !.pc = "yield_start", !.streaming_active = TRUE,
                   !.messages = BuildMessages(q.agent_type, q.current_iteration,
                                  battle_data, TASKS[battle_data.battle.task_id])],
                [type |-> "start", iteration |-> q.current_iteration,
                 agent |-> q.agent_type])]
  /\ heartbeat_task' = [heartbeat_task EXCEPT ![r] = "running"]
  /\ UNCHANGED <<active_battles, db>>

\* heartbeat_worker: one sleep elapsed while streaming_active
heartbeat_worker(r) ==
  /\ heartbeat_task[r] = "running"
  /\ req[r].streaming_active
  /\ req' = [req EXCEPT ![r].heartbeat_queue = @ + 1, ![r].ticks = @ + 1]
  /\ UNCHANGED <<active_battles, db, heartbeat_task>>

\* resumed after "yield start": the try block is entered and the provider
\* stream is opened
generate_stream_open(r, response, fragments) ==
  /\ req[r].pc = "yield_start"
  /\ req' = [req EXCEPT ![r].pc = "await_chunk", ![r].pending = fragments,
                        ![r].ms = response.ms]
  /\ UNCHANGED <<active_battles, db, heartbeat_task>>

\* the body of the async for from the heartbeat drain on: a queued
\* keep-alive is yielded first, else the chunk is added and yielded
DrainThenChunk(q) ==
  IF q.heartbeat_queue > 0
  THEN Emit([q EXCEPT !.pc = "yield_heartbeat", !.heartbeat_queue = @ - 1],
            [type |-> "keep-alive"])
  ELSE LET chunk == q.fragments[Len(q.fragments)] IN
       Emit([q EXCEPT !.pc = "yield_chunk", !.full_response = @ \o chunk],
            [type |-> "chunk", content |-> chunk])

\* the provider delivers the next fragment
generate_stream_fragment(r) ==
  /\ req[r].pc = "await_chunk"
  /\ req[r].pending # <<>>
  /\ req' = [req EXCEPT ![r] =
       DrainThenChunk([@ EXCEPT !.fragments = Append(@, Head(req[r].pending)),
                                !.pending = Tail(@)])]
  /\ UNCHANGED <<active_battles, db, heartbeat_task>>

\* resumed after "yield heartbeat"
generate_stream_after_heartbeat(r) ==
  /\ req[r].pc = "yield_heartbeat"
  /\ req' = [req EXCEPT ![r] = DrainThenChunk(@)]
  /\ UNCHANGED <<active_battles, db, heartbeat_task>>

\* resumed after "yield chunk": back to awaiting the provider
generate_stream_after_chunk(r) ==
  /\ req[r].pc = "yield_chunk"
  /\ req' = [req EXCEPT ![r].pc = "await_chunk"]
  /\ UNCHANGED <<active_battles, db, heartbeat_task>>

\* generate_stream_upstream_failure that first yields a queued keep-alive
generate_stream_upstream_failure_flushes(r) ==
  /\ req[r].pc = "await_chunk"
  /\ LET q == [req[r] EXCEPT !.pc = "yield_error", !.failure = "upstream"]
         flushed == IF q.heartbeat_queue > 0
                    THEN Emit([q EXCEPT !.heartbeat_queue = @ - 1],
                              [type |-> "keep-alive"])
                    ELSE q
     IN  req' = [req EXCEPT ![r] = Emit(flushed, [type |-> "error"])]
  /\ UNCHANGED <<active_battles, db, heartbeat_task>>

\* generate_stream_upstream_failure that also marks the agent "failed"
generate_stream_upstream_failure_marks(r) ==
  /\ req[r].pc = "await_chunk"
  /\ req' = [req EXCEPT ![r] =
       Emit([@ EXCEPT !.pc = "yield_error", !.failure = "upstream"],
            [type |-> "error"])]
  /\ active_battles' =
       [active_battles EXCEPT
          ![req[r].battle_id].battle[AgentKey(req[r].agent_type)].status = "failed"]
  /\ UNCHANGED <<db, heartbeat_task>>

\* the provider stream raises: except Exception yields the error event
generate_stream_upstream_failure(r) ==
  /\ req[r].pc = "await_chunk"
  /\ req' = [req EXCEPT ![r] =
       Emit([@ EXCEPT !.pc = "yield_error", !.failure = "upstream"],
            [type |-> "error"])]
  /\ UNCHANGED <<active_battles, db, heartbeat_task>>

\* generate_stream_record that leaves the response out of context_size
generate_stream_record_prompt_only(r) ==
  /\ req[r].pc = "await_chunk"
  /\ req[r].pending = <<>>
  /\ LET q == req[r]
         battle_data == active_battles[q.battle_id]
         task == TASKS[battle_data.battle.task_id]
         status == evaluate_response(q.full_response, task)
         context_size == ContextSize(q.agent_type, q.messages, <<>>)
         total_tokens == EstimateTokens(q.messages, q.full_response)
         iteration == Iteration(q.current_iteration, context_size, total_tokens,
                                q.ms, status, q.full_response)
     IN  /\ active_battles' = [active_battles EXCEPT ![q.battle_id] =
                                 Record(battle_data, Local(q), q.agent_type,
                                        iteration, q.full_response)]
         /\ req' = [Rebind(r) EXCEPT ![r].pc = "await_db", ![r].mutated = TRUE,
                                     ![r].iteration = <<iteration>>]
  /\ UNCHANGED <<db, heartbeat_task>>

\* the provider stream is exhausted: evaluate, record, up to
\* "await conn.execute"
generate_stream_record(r) ==
  /\ req[r].pc = "await_chunk"
  /\ req[r].pending = <<>>
  /\ LET q == req[r]
         battle_data == active_battles[q.battle_id]
         task == TASKS[battle_data.battle.task_id]
         status == evaluate_response(q.full_response, task)
         context_size == ContextSize(q.agent_type, q.messages, q.full_response)
         total_tokens == EstimateTokens(q.messages, q.full_response)
         iteration == Iteration(q.current_iteration, context_size, total_tokens,
                                q.ms, status, q.full_response)
     IN  /\ active_battles' = [active_battles EXCEPT ![q.battle_id] =
                                 Record(battle_data, Local(q), q.agent_type,
                                        iteration, q.full_response)]
         /\ req' = [Rebind(r) EXCEPT ![r].pc = "await_db", ![r].mutated = TRUE,
                                     ![r].iteration = <<iteration>>]
  /\ UNCHANGED <<db, heartbeat_task>>

\* generate_stream_persist that yields complete before the UPDATE is awaited
generate_stream_persist_completes_first(r, ok) ==
  /\ req[r].kind = "stream" /\ req[r].pc = "await_db"
  /\ LET q == req[r]
         battle == active_battles[q.battle_id].battle
         agent_state == Local(q)
         sent == Emit(q, [type |-> "complete",
                          iteration |-> q.iteration[1],
                          agent_state |-> agent_state,
                          battle_status |-> battle.status, winner |-> battle.winner])
     IN  /\ db' = IF ok THEN UpdateRow(db, q.battle_id, battle) ELSE db
         /\ req' = [req EXCEPT ![r] =
              IF ok
              THEN [sent EXCEPT !.pc = "yield_complete"]
              ELSE Emit([sent EXCEPT !.pc = "yield_error", !.failure = "persistence"],
                        [type |-> "error"])]
  /\ UNCHANGED <<active_battles, heartbeat_task>>

\* generate_stream_persist that yields complete whether or not the UPDATE
\* raised
generate_stream_persist_swallows_failure(r, ok) ==
  /\ req[r].kind = "stream" /\ req[r].pc = "await_db"
  /\ LET q == req[r]
         battle == active_battles[q.battle_id].battle
         agent_state == Local(q)
     IN  /\ db' = IF ok THEN UpdateRow(db, q.battle_id, battle) ELSE db
         /\ req' = [req EXCEPT ![r] =
              Emit([q EXCEPT !.pc = "yield_complete",
                             !.failure = IF ok THEN "none" ELSE "persistence"],
                   [type |-> "complete",
                    iteration |-> q.iteration[1],
                    agent_state |-> agent_state,
                    battle_status |-> battle.status, winner |-> battle.winner])]
  /\ UNCHANGED <<active_battles, heartbeat_task>>

\* the UPDATE returns: yield complete; it raises: yield error
generate_stream_persist(r, ok) ==
  /\ req[r].kind = "stream" /\ req[r].pc = "await_db"
  /\ LET q == req[r]
         battle == active_battles[q.battle_id].battle
         agent_state == Local(q)
     IN  /\ db' = IF ok THEN UpdateRow(db, q.battle_id, battle) ELSE db
         /\ req' = [req EXCEPT ![r] =
              IF ok
              THEN Emit([q EXCEPT !.pc = "yield_complete"],
                        [type |-> "complete",
                         iteration |-> q.iteration[1],
                         agent_state |-> agent_state,
                         battle_status |-> battle.status, winner |-> battle.winner])
              ELSE Emit([q EXCEPT !.pc = "yield_error", !.failure = "persistence"],
                        [type |-> "error"])]
  /\ UNCHANGED <<active_battles, heartbeat_task>>

\* resumed after the terminal event: finally, then the generator returns
generate_stream_finish(r) ==
  /\ req[r].pc \in {"yield_complete", "yield_error"}
  /\ req' = [req EXCEPT ![r].pc = "done", ![r].streaming_active = FALSE]
  /\ Cleanup(r)
  /\ UNCHANGED <<active_battles, db>>

\* positions of generate_stream inside its try block
InTry == {"await_chunk", "yield_heartbeat", "yield_chunk", "await_db",
          "yield_complete", "yield_error"}

\* the client goes away: the generator is cancelled or closed where it is
\* suspended; only a suspension inside the try block reaches the finally
client_disconnect(r) ==
  /\ req[r].kind = "stream"
  /\ req[r].pc \in {"created", "yield_start"} \cup InTry
  /\ IF req[r].pc \in InTry
     THEN /\ req' = [req EXCEPT ![r].pc = "done", ![r].streaming_active = FALSE,
                                ![r].cancelled = TRUE]
          /\ Cleanup(r)
     ELSE /\ req' = [req EXCEPT ![r].pc = "done", ![r].cancelled = TRUE]
          /\ UNCHANGED heartbeat_task
  /\ UNCHANGED <<active_battles, db>>

(* ------------------- the dependency of both iterates ------------------- *)
\* rate_limit_dependency raises: 429 with Retry-After, the handler is not run
rate_limited(r, kind, battle_id, agent_type, reset_time) ==
  /\ req[r].pc = "none"
  /\ req' = [req EXCEPT ![r] =
       [Returned(kind, battle_id, 429) EXCEPT !.agent_type = agent_type,
                                              !.retry_after = reset_time]]
  /\ UNCHANGED <<active_battles, db, heartbeat_task>>

\* rate_limit_dependency that records the timestamp of a rejected request too
rate_limit_dependency_counts_rejected(r, ip, enabled, kind, battle_id, agent_type) ==
  LET c == check_rate_limit(ip, enabled) IN
  /\ rate_limit_store' = [c.store EXCEPT ![ip] =
                            IF c.is_allowed THEN @ ELSE Append(@, now)]
  /\ observed' = IF enabled THEN Observe(ip, c) ELSE observed
  /\ UNCHANGED now
  /\ IF c.is_allowed
     THEN IF kind = "blocking" THEN iterate_agent(r, battle_id, agent_type)
          ELSE iterate_agent_stream(r, battle_id, agent_type)
     ELSE rate_limited(r, kind, battle_id, agent_type, c.reset_time)

\* rate_limit_dependency that gives the slot back when the handler answers
\* 404 or 400
rate_limit_dependency_refunds_rejected(r, ip, enabled, kind, battle_id, agent_type) ==
  LET c == check_rate_limit(ip, enabled) IN
  /\ rate_limit_store' =
       IF battle_id \in DOMAIN active_battles /\ agent_type \in AgentTypes
       THEN c.store
       ELSE IF ip \in DOMAIN rate_limit_store THEN rate_limit_store ELSE c.store
  /\ observed' = IF enabled THEN Observe(ip, c) ELSE observed
  /\ UNCHANGED now
  /\ IF c.is_allowed
     THEN IF kind = "blocking" THEN iterate_agent(r, battle_id, agent_type)
          ELSE iterate_agent_stream(r, battle_id, agent_type)
     ELSE rate_limited(r, kind, battle_id, agent_type, c.reset_time)

\* an iterate request of client ip arrives: Depends(rate_limit_dependency)
\* runs, then the handler of that kind
rate_limit_dependency(r, ip, enabled, kind, battle_id, agent_type) ==
  LET c == check_rate_limit(ip, enabled) IN
  /\ rate_limit_store' = c.store
  /\ observed' = IF enabled THEN Observe(ip, c) ELSE observed
  /\ UNCHANGED now
  /\ IF c.is_allowed
     THEN IF kind = "blocking" THEN iterate_agent(r, battle_id, agent_type)
          ELSE iterate_agent_stream(r, battle_id, agent_type)
     ELSE rate_limited(r, kind, battle_id, agent_type, c.reset_time)

\* the clock has advanced to instant t
time_passes(t) ==
  /\ now < t
  /\ now' = t
  /\ UNCHANGED <<active_battles, db, req, heartbeat_task, rate_limit_store, observed>>

(* ---------------------------- specifications --------------------------- *)
\* the steps of the request in slot r once its handler has been entered;
\* an Iteration is recorded only while fewer than cap are on record
Step(r, cap) ==
  \/ iterate_agent_upstream_failure(r)
  \/ \E c \in Completions : Recorded < cap /\ iterate_agent_record(r, c)
  \/ \E ok \in BOOLEAN : iterate_agent_persist(r, ok)
  \/ generate_stream_start(r)
  \/ req[r].ticks < MaxTicks /\ heartbeat_worker(r)
  \/ \E c \in Completions :
       \E f \in Fragmentations(c.content, MaxChunks) : generate_stream_open(r, c, f)
  \/ generate_stream_fragment(r)
  \/ generate_stream_after_heartbeat(r)
  \/ generate_stream_after_chunk(r)
  \/ generate_stream_upstream_failure(r)
  \/ Recorded < cap /\ generate_stream_record(r)
  \/ \E ok \in BOOLEAN : generate_stream_persist(r, ok)
  \/ generate_stream_finish(r)
  \/ client_disconnect(r)
  \/ Close(r)

\* the calls a client may make while no other request is in flight; oks:
\* whether the database write of create and start may raise.  The write of
\* a reset returns: a reset whose write raises leaves behind the row of the
\* discarded iterations, which no handler reads again
Call(r, oks) ==
  \/ \E id \in BattleIds, t \in TaskParams, ok \in oks :
       Quiet /\ create_battle(r, id, t, ok)
  \/ \E b \in BattleParams, ok \in oks : Quiet /\ start_battle(r, b, ok)
  \/ \E b \in BattleParams : Quiet /\ reset_battle(r, b, TRUE)

\* the iterate requests the clients may make while no other request is in
\* flight
Iterate(r, clients, enabled, battles, agents) ==
  \E ip \in clients, b \in battles, a \in agents :
    \/ Quiet /\ rate_limit_dependency(r, ip, enabled, "blocking", b, a)
    \/ Quiet /\ rate_limit_dependency(r, ip, enabled, "stream", b, a)

\* Spec: requests one at a time, every step of a stream, every failure
Next ==
  \E r \in OneAtATime :
    \/ Call(r, BOOLEAN) /\ UNCHANGED limiter
    \/ Iterate(r, OneClient, FALSE, BattleParams, AgentParams)
    \/ Step(r, MaxRecorded) /\ UNCHANGED limiter

Spec == Init /\ [][Next]_vars

\* the steps of the request in slot r when every stream arrives as one
\* fragment before a keep-alive sleep elapses, the client stays connected
\* and the database answers; the provider answers from completions
Whole(r, cap, completions) ==
  \/ iterate_agent_upstream_failure(r)
  \/ \E c \in completions : Recorded < cap /\ iterate_agent_record(r, c)
  \/ iterate_agent_persist(r, TRUE)
  \/ generate_stream_start(r)
  \/ \E c \in completions : generate_stream_open(r, c, <<c.content>>)
  \/ generate_stream_fragment(r)
  \/ generate_stream_after_chunk(r)
  \/ generate_stream_upstream_failure(r)
  \/ Recorded < cap /\ generate_stream_record(r)
  \/ generate_stream_persist(r, TRUE)
  \/ generate_stream_finish(r)
  \/ Close(r)

\* SpecBattle: requests one at a time over longer histories
StepBattle(r) == Whole(r, MaxIter, Completions)

NextBattle ==
  \E r \in OneAtATime :
    \/ Call(r, {TRUE}) /\ UNCHANGED limiter
    \/ Iterate(r, OneClient, FALSE, BattleParams, AgentParams)
    \/ StepBattle(r) /\ UNCHANGED limiter

SpecBattle == Init /\ [][NextBattle]_vars

\* SpecLimiter: RATE_LIMIT_ENABLED = true; two clients, one battle, blocking
\* and streaming iterates one at a time while the clock advances; a
\* completion that arrives passes
StepLimiter(r) == Whole(r, MaxRecorded, Passing)

NextLimiter ==
  \/ \E r \in OneAtATime :
       \/ \E id \in BattleIds :
            Quiet /\ create_battle(r, id, "rest-api", TRUE) /\ UNCHANGED limiter
       \/ Iterate(r, Clients, TRUE, BattleParams, AgentParams)
       \/ StepLimiter(r) /\ UNCHANGED limiter
  \/ \E t \in Instants : Quiet /\ time_passes(t)

SpecLimiter == Init /\ [][NextLimiter]_vars

\* SpecPair: two battles of the same task, iterated one request at a time
NextPair ==
  \E r \in OneAtATime :
    \/ \E id \in PairIds :
         Quiet /\ create_battle(r, id, "rest-api", TRUE) /\ UNCHANGED limiter
    \/ Iterate(r, OneClient, FALSE, PairIds, AgentTypes)
    \/ Whole(r, MaxPair, Completions) /\ UNCHANGED limiter

SpecPair == Init /\ [][NextPair]_vars

\* the iterate requests that may arrive whatever else is in flight
Arrive(r, battles, agents) ==
  \E ip \in OneClient, b \in battles, a \in agents :
    \/ rate_limit_dependency(r, ip, FALSE, "blocking", b, a)
    \/ rate_limit_dependency(r, ip, FALSE, "stream", b, a)

\* SpecOverlap: one battle, up to two iterate requests for its traditional
\* agent in flight together
NextOverlap ==
  \E r \in Slots :
    \/ \E id \in BattleIds :
         Quiet /\ create_battle(r, id, "rest-api", TRUE) /\ UNCHANGED limiter
    \/ Arrive(r, BattleIds, {"traditional"})
    \/ Whole(r, MaxOverlap, Completions) /\ UNCHANGED limiter

SpecOverlap == Init /\ [][NextOverlap]_vars

\* SpecRace: one battle, iterate requests one at a time in the first slot,
\* and resets that arrive at any moment in the second
NextRace ==
  \/ \E r \in OneAtATime :
       \/ \E id \in BattleIds :
            Quiet /\ create_battle(r, id, "rest-api", TRUE) /\ UNCHANGED limiter
       \/ Iterate(r, OneClient, FALSE, BattleIds, AgentTypes)
       \/ Whole(r, MaxOverlap, Completions) /\ UNCHANGED limiter
  \/ \E r \in Slots \ OneAtATime :
       \/ \E b \in BattleIds : reset_battle(r, b, TRUE) /\ UNCHANGED limiter
       \/ Close(r) /\ UNCHANGED limiter

SpecRace == Init /\ [][NextRace]_vars

\* SpecEvaluate: one battle of either task; whatever the provider answers
\* is evaluated and recorded by a blocking or a streaming iterate
NextEvaluate ==
  \E r \in OneAtATime :
    \/ \E id \in BattleIds, t \in DOMAIN TASKS :
         Quiet /\ create_battle(r, id, t, TRUE) /\ UNCHANGED limiter
    \/ Iterate(r, OneClient, FALSE, BattleIds, AgentTypes)
    \/ Whole(r, MaxRecorded, Responses) /\ UNCHANGED limiter

SpecEvaluate == Init /\ [][NextEvaluate]_vars

\* SpecStream: one battle, streaming iterates one at a time; the provider
\* cuts its answer into fragments and pauses for up to MaxBurst keep-alive
\* sleeps, fails, or the client goes away
StepStream(r) ==
  \/ generate_stream_start(r)
  \/ req[r].ticks < MaxBurst /\ heartbeat_worker(r)
  \/ \E c \in Passing :
       \E f \in Fragmentations(c.content, MaxChunks) : generate_stream_open(r, c, f)
  \/ generate_stream_fragment(r)
  \/ generate_stream_after_heartbeat(r)
  \/ generate_stream_after_chunk(r)
  \/ generate_stream_upstream_failure(r)
  \/ Recorded < MaxRecorded /\ generate_stream_record(r)
  \/ \E ok \in BOOLEAN : generate_stream_persist(r, ok)
  \/ generate_stream_finish(r)
  \/ client_disconnect(r)
  \/ Close(r)

NextStream ==
  \E r \in OneAtATime :
    \/ \E id \in BattleIds :
         Quiet /\ create_battle(r, id, "rest-api", TRUE) /\ UNCHANGED limiter
    \/ \E ip \in OneClient, b \in BattleIds, a \in AgentTypes :
         Quiet /\ rate_limit_dependency(r, ip, FALSE, "stream", b, a)
    \/ StepStream(r) /\ UNCHANGED limiter

SpecStream == Init /\ [][NextStream]_vars

(* ------------------------------- claims -------------------------------- *)
AgentOf(b, a) == active_battles[b].battle[AgentKey(a)]

\* C1: whatever calls were made one at a time, the Iterations of every agent
\* of every battle are numbered 1, 2, ..., k in list order.
C1_IterationNumbersContiguous ==
  \A b \in DOMAIN active_battles, a \in AgentTypes :
    \A i \in 1..Len(AgentOf(b, a).iterations) :
      AgentOf(b, a).iterations[i].iteration_number = i

\* an iterate has just failed upstream on an agent that holds two Iterations
C1_Witness ==
  \E r \in Slots :
    /\ req[r].pc = "done" /\ req[r].failure = "upstream"
    /\ Len(AgentOf(req[r].battle_id, req[r].agent_type).iterations) >= 2

\* C2: after an iterate whose completion call or fragment stream raised, the
\* battles are what they were when the call was made, and the next iterate
\* of that agent would get the number this one had.
C2_UpstreamFailureChangesNothing ==
  \A r \in Slots :
    req[r].failure = "upstream" =>
      /\ active_battles = req[r].pre
      /\ Admit("blocking", req[r].battle_id, req[r].agent_type).current_iteration
           = req[r].current_iteration

\* a stream has failed after two chunks on an agent that holds an Iteration
C2_Witness ==
  \E r \in Slots :
    /\ req[r].kind = "stream" /\ req[r].failure = "upstream"
    /\ Len(req[r].fragments) = 2
    /\ Len(AgentOf(req[r].battle_id, req[r].agent_type).iterations) = 1

\* the step is the reset / the start of battle b
IsReset(b) ==
  \E r \in Slots : req[r].pc = "none" /\ req'[r].kind = "reset"
                   /\ req'[r].battle_id = b
IsStart(b) ==
  \E r \in Slots : req[r].pc = "none" /\ req'[r].kind = "start"
                   /\ req'[r].battle_id = b
\* the step is the one in which an iterate on battle b records its Iteration
IsRecord(b) ==
  \E r \in Slots : req[r].kind \in {"blocking", "stream"} /\ req[r].battle_id = b
                   /\ ~req[r].mutated /\ req'[r].mutated

\* C3: once the winner is an agent (it completed while the other had not),
\* the winner stays that agent in every step that is not a reset.
C3_WinnerStaysFirstCompleted ==
  [][ \A b \in DOMAIN active_battles :
        (active_battles[b].battle.winner \in AgentTypes /\ ~IsReset(b))
          => active_battles'[b].battle.winner = active_battles[b].battle.winner ]_vars

\* C4: a battle is completed exactly when both of its agents are completed.
C4_CompletedIffBothCompleted ==
  \A b \in DOMAIN active_battles :
    active_battles[b].battle.status = "completed"
      <=> \A a \in AgentTypes : AgentOf(b, a).status = "completed"

\* C5: a completed agent is still completed after every step that is not a
\* reset of its battle.
C5_CompletedAgentStaysCompleted ==
  [][ \A b \in DOMAIN active_battles, a \in AgentTypes :
        (AgentOf(b, a).status = "completed" /\ ~IsReset(b))
          => active_battles'[b].battle[AgentKey(a)].status = "completed" ]_vars

\* C6: the status of a battle changes only from idle to running in a start,
\* from running to completed in an iterate after which both agents are
\* completed, and to idle in a reset.
C6_BattleStatusTransitions ==
  [][ \A b \in DOMAIN active_battles :
        LET old == active_battles[b].battle.status
            new == active_battles'[b].battle.status
        IN  \/ new = old
            \/ IsReset(b) /\ new = "idle"
            \/ IsStart(b) /\ old = "idle" /\ new = "running"
            \/ /\ IsRecord(b) /\ old = "running" /\ new = "completed"
               /\ \A a \in AgentTypes :
                    active_battles'[b].battle[AgentKey(a)].status = "completed" ]_vars

\* C7: when a reset of a known battle has returned, both agents are idle
\* with no Iterations and zero counters, there is no winner, the battle is
\* idle, the history and the state file are empty, and the next iterate of
\* either agent is numbered 1 and sends the task prompt alone.
C7_ResetRestoresInitialState ==
  \A r \in Slots :
    (req[r].kind = "reset" /\ req[r].pc = "done" /\ req[r].result # 404) =>
      LET b == req[r].battle_id
          battle_data == active_battles[b]
          task == TASKS[battle_data.battle.task_id]
      IN  /\ battle_data.battle.status = "idle"
          /\ battle_data.battle.winner = "none"
          /\ battle_data.traditional_history = <<>>
          /\ battle_data.ralph_state_file = <<>>
          /\ \A a \in AgentTypes :
               /\ AgentOf(b, a).status = "idle"
               /\ AgentOf(b, a).iterations = <<>>
               /\ AgentOf(b, a).total_tokens = 0
               /\ AgentOf(b, a).success_count = 0
               /\ AgentOf(b, a).failure_count = 0
               /\ AgentOf(b, a).current_context_size = 0
               /\ AgentOf(b, a).total_time_ms = 0
               /\ Admit("blocking", b, a).current_iteration = 1
               /\ BuildMessages(a, Admit("blocking", b, a).current_iteration,
                                battle_data, task)
                    = << [role |-> "user", content |-> task.prompt_template] >>

\* a reset has returned on a battle that had a winner, a traditional history
\* and a state file
C7_Witness ==
  \E r \in Slots :
    /\ req[r].kind = "reset" /\ req[r].pc = "done" /\ req[r].result = 200
    /\ req[r].pre[req[r].battle_id].battle.winner # "none"
    /\ req[r].pre[req[r].battle_id].traditional_history # <<>>
    /\ req[r].pre[req[r].battle_id].ralph_state_file # <<>>

\* the data events of a stream: every frame but the keep-alive comments
IsData(e) == e.type # "keep-alive"
DataEvents(r) == SelectSeq(req[r].events, IsData)
Terminal == {"complete", "error"}

\* C8: the data events of a stream the client does not cancel are one start,
\* then one chunk per fragment received, in order, then exactly one of
\* complete and error, and nothing more; after an upstream failure they are
\* start, the chunks, error.
C8_StreamEventOrder ==
  \A r \in Slots :
    (req[r].kind = "stream" /\ req[r].events # <<>>) =>
      LET data == DataEvents(r)
          n == Len(data)
          ended == data[n].type \in Terminal
          chunks == [i \in 1..(IF ended THEN n - 2 ELSE n - 1) |-> data[i + 1]]
      IN  /\ data[1] = [type |-> "start", iteration |-> req[r].current_iteration,
                        agent |-> req[r].agent_type]
          /\ \A i \in 2..n : data[i].type \in {"chunk"} \cup Terminal
          /\ \A i \in 2..(n - 1) : data[i].type = "chunk"
          /\ \A i \in DOMAIN chunks : chunks[i].content = req[r].fragments[i]
          /\ \/ Len(chunks) = Len(req[r].fragments)
             \/ (Len(chunks) = Len(req[r].fragments) - 1 /\ ~ended)
          /\ (req[r].pc = "done" /\ ~req[r].cancelled) =>
               /\ ended
               /\ Len(chunks) = Len(req[r].fragments)
               /\ (data[n].type = "complete") <=> (req[r].failure = "none")
          /\ req[r].failure = "upstream" =>
               /\ data[n].type = "error"
               /\ Len(chunks) = Len(req[r].fragments)

\* a stream ended by itself after an upstream failure that followed two
\* chunks and a keep-alive frame
C8_Witness ==
  \E r \in Slots :
    /\ req[r].kind = "stream" /\ req[r].pc = "done" /\ ~req[r].cancelled
    /\ req[r].failure = "upstream"
    /\ Len(req[r].fragments) = 2
    /\ Len(req[r].events) = 5

\* C9: when a stream has ended without a complete event, the battles are
\* what they were when the call was made.
C9_NoCompleteNoChange ==
  \A r \in Slots :
    ( /\ req[r].kind = "stream" /\ req[r].pc = "done"
      /\ \A i \in DOMAIN req[r].events : req[r].events[i].type # "complete" )
      => active_battles = req[r].pre

\* C10: when a stream has ended, its keep-alive task is not running.
C10_TickerStoppedAtStreamEnd ==
  \A r \in Slots :
    (req[r].kind = "stream" /\ req[r].pc = "done") => heartbeat_task[r] # "running"

\* C11: with the limiter on, at every instant each client has at most
\* RATE_LIMIT_REQUESTS_PER_HOUR admitted iterate requests in the window that
\* ends there (the count is largest at an instant of admission), whatever
\* the other clients did; a request that was answered 429 found the window
\* of its client full.
C11_WindowedAdmissions ==
  /\ \A ip \in Clients :
        LET log == observed[ip].admitted IN
        /\ \A i \in DOMAIN log : InWindow(log, log[i]) <= RATE_LIMIT_REQUESTS_PER_HOUR
        /\ InWindow(log, now) <= RATE_LIMIT_REQUESTS_PER_HOUR
        /\ InWindow(log, observed[ip].last.at) >= RATE_LIMIT_REQUESTS_PER_HOUR
             => \/ ~observed[ip].last.is_allowed
                \/ log[Len(log)] = observed[ip].last.at
  /\ \A r \in Slots :
        req[r].result = 429 =>
          \E ip \in Clients :
            /\ ~observed[ip].last.is_allowed /\ observed[ip].last.at = now
            /\ InWindow(observed[ip].admitted, now) = RATE_LIMIT_REQUESTS_PER_HOUR

\* a client was admitted again after its window had emptied while the other
\* client, with a full window, has just been rejected
C11_Witness ==
  \E ip \in Clients, other \in Clients :
    /\ ip # other
    /\ Len(observed[ip].admitted) > RATE_LIMIT_REQUESTS_PER_HOUR
    /\ ~observed[other].last.is_allowed
    /\ \E r \in Slots : req[r].result = 429

\* C12: a request made exactly Retry-After seconds after a rejection of the
\* same client, with no request of that client in between, is admitted.
C12_RetryAfterIsEnough ==
  [][ \A ip \in Clients :
        LET rejected == observed[ip].last
            retried == observed'[ip].last
        IN  ( /\ ~rejected.is_allowed
              /\ retried # rejected
              /\ retried.at = rejected.at + rejected.reset_time * TicksPerSecond )
              => retried.is_allowed ]_vars

\* C13: the step that answers an iterate request with 429 leaves the
\* buckets, the battles and the rows as they are and enters no handler (no
\* messages are built, no frame is sent); nothing but the close of the
\* connection follows it.
C13_RejectedChangesNothing ==
  [][ \A r \in Slots :
        /\ (req[r].pc = "none" /\ req'[r].result = 429) =>
              /\ rate_limit_store' = rate_limit_store
              /\ active_battles' = active_battles
              /\ db' = db
              /\ req'[r].pc = "done"
              /\ req'[r].messages = <<>> /\ req'[r].events = <<>>
              /\ ~req'[r].mutated
        /\ req[r].result = 429 =>
              /\ req'[r] \in {req[r], NoRequest}
              /\ active_battles' = active_battles ]_vars

\* an iterate on an agent that holds an Iteration has been answered 429
C13_Witness ==
  \E r \in Slots :
    /\ req[r].result = 429 /\ req[r].pc = "done"
    /\ req[r].battle_id \in DOMAIN active_battles
    /\ req[r].agent_type \in AgentTypes
    /\ AgentOf(req[r].battle_id, req[r].agent_type).iterations # <<>>

\* the Iterations of an agent that ended with the given status
CountStatus(agent_state, status) ==
  Cardinality({ i \in DOMAIN agent_state.iterations :
                  agent_state.iterations[i].status = status })

\* C14: in every state each agent's success_count is the number of its
\* success Iterations plus half the number of its partial ones (counted in
\* halves: twice the one plus the other), and its failure_count is the
\* number of its failure Iterations.
C14_CountersMatchIterations ==
  \A b \in DOMAIN active_battles, a \in AgentTypes :
    /\ AgentOf(b, a).success_count =
         2 * CountStatus(AgentOf(b, a), "success") + CountStatus(AgentOf(b, a), "partial")
    /\ AgentOf(b, a).failure_count = CountStatus(AgentOf(b, a), "failure")

\* an agent holds a success, a partial and a failure: success_count is 1.5
C14_Witness ==
  \E b \in DOMAIN active_battles, a \in AgentTypes :
    /\ AgentOf(b, a).success_count = 3
    /\ AgentOf(b, a).failure_count = 1
    /\ CountStatus(AgentOf(b, a), "partial") = 1

\* the iterate requests, blocking and streaming
IterateKinds == {"blocking", "stream"}

\* C15: an iterate request that passed the limiter and names an agent other
\* than traditional and ralph is answered 400, whether or not its battle
\* id is known, and leaves the battles as they were.
C15_InvalidAgentIs400 ==
  \A r \in Slots :
    ( /\ req[r].kind \in IterateKinds /\ req[r].pc = "done"
      /\ req[r].agent_type \notin AgentTypes )
      => /\ req[r].result = 400
         /\ active_battles = req[r].pre

C17_TraditionalContextGrows ==
  /\ \A b \in DOMAIN active_battles :
        LET its == AgentOf(b, "traditional").iterations
            history == active_battles[b].traditional_history
        IN  /\ Len(history) = Len(its)
            /\ \A i \in 1..(Len(its) - 1) :
                 Len(history[i + 1].response) = Len(history[i].response)
                   => its[i + 1].context_size > its[i].context_size
  /\ \A r \in Slots :
        ( /\ req[r].kind \in IterateKinds /\ req[r].agent_type = "traditional"
          /\ req[r].messages # <<>> ) =>
          LET k == req[r].current_iteration
              before == req[r].pre[req[r].battle_id]
              its == before.battle.traditional_agent.iterations
              history == before.traditional_history
              task == TASKS[before.battle.task_id]
          IN  /\ Len(req[r].messages) = 2 * k - 1
              /\ req[r].messages[1] = [role |-> "user", content |-> task.prompt_template]
              /\ \A i \in 1..(k - 1) :
                   /\ req[r].messages[2 * i] =
                        [role |-> "assistant", content |-> history[i].response]
                   /\ TruncateMessage(history[i].response) = its[i].message
                   /\ req[r].messages[2 * i + 1] = FollowUp(its[i].status)

\* the third traditional Iteration of a battle has been recorded from a list
\* of five messages
C17_Witness ==
  \E r \in Slots :
    /\ req[r].kind \in IterateKinds /\ req[r].agent_type = "traditional"
    /\ req[r].mutated /\ Len(req[r].messages) = 5
    /\ Len(AgentOf(req[r].battle_id, "traditional").iterations) = 3

\* C18: among the ralph Iterations of a battle from the second on, a later
\* one whose response is as long as an earlier one's has a context_size
\* that is not larger (the tenth is not larger than the second).
C18_RalphContextDoesNotGrow ==
  \A b \in DOMAIN active_battles :
    LET its == AgentOf(b, "ralph").iterations IN
    \A i \in DOMAIN its, j \in DOMAIN its :
      (2 <= i /\ i < j /\ Len(its[j].message) = Len(its[i].message))
        => its[j].context_size <= its[i].context_size

\* C19: once an iterate has recorded its Iteration, the agent it names holds
\* the Iterations it held when the request arrived and one more; the other
\* agent of the battle is what it was, and so is the other agent's working
\* state (ralph_state_file for a traditional iterate, traditional_history
\* for a ralph iterate) and every other battle.
C19_IterateAdvancesOneAgent ==
  \A r \in Slots :
    (req[r].kind \in IterateKinds /\ req[r].mutated) =>
      LET b == req[r].battle_id
          a == req[r].agent_type
          before == req[r].pre
          was == before[b].battle[AgentKey(a)].iterations
          is == AgentOf(b, a).iterations
      IN  /\ Len(is) = Len(was) + 1
          /\ SubSeq(is, 1, Len(was)) = was
          /\ active_battles[b].battle[OtherAgent(a)] = before[b].battle[OtherAgent(a)]
          /\ a = "traditional" =>
               active_battles[b].ralph_state_file = before[b].ralph_state_file
          /\ a = "ralph" =>
               active_battles[b].traditional_history = before[b].traditional_history
          /\ DOMAIN active_battles = DOMAIN before
          /\ \A o \in DOMAIN active_battles \ {b} : active_battles[o] = before[o]

\* a ralph iterate has recorded its Iteration in one battle while another
\* battle holds a traditional Iteration
C19_Witness ==
  \E r \in Slots, o \in DOMAIN active_battles :
    /\ req[r].kind \in IterateKinds /\ req[r].mutated
    /\ req[r].agent_type = "ralph"
    /\ o # req[r].battle_id
    /\ active_battles[o].traditional_history # <<>>

\* C20: when a start of a known battle has returned, the battle and both
\* agents are running; each agent is otherwise what it was (Iterations,
\* total_tokens, success_count, failure_count, current_context_size,
\* total_time_ms), and the winner, traditional_history and ralph_state_file
\* are what they were.
C20_StartOnlySetsRunning ==
  \A r \in Slots :
    (req[r].kind = "start" /\ req[r].pc = "done" /\ req[r].result # 404) =>
      LET b == req[r].battle_id
          before == req[r].pre[b]
          after == active_battles[b]
      IN  /\ after.battle.status = "running"
          /\ \A a \in AgentTypes :
               /\ AgentOf(b, a).status = "running"
               /\ AgentOf(b, a).iterations = before.battle[AgentKey(a)].iterations
               /\ AgentOf(b, a).total_tokens = before.battle[AgentKey(a)].total_tokens
               /\ AgentOf(b, a).success_count = before.battle[AgentKey(a)].success_count
               /\ AgentOf(b, a).failure_count = before.battle[AgentKey(a)].failure_count
               /\ AgentOf(b, a).current_context_size =
                    before.battle[AgentKey(a)].current_context_size
               /\ AgentOf(b, a).total_time_ms = before.battle[AgentKey(a)].total_time_ms
          /\ after.battle.winner = before.battle.winner
          /\ after.traditional_history = before.traditional_history
          /\ after.ralph_state_file = before.ralph_state_file

\* a start has returned on a battle that had a winner, a completed agent,
\* a traditional history and a state file
C20_Witness ==
  \E r \in Slots :
    /\ req[r].kind = "start" /\ req[r].pc = "done" /\ req[r].result = 200
    /\ req[r].pre[req[r].battle_id].battle.winner # "none"
    /\ req[r].pre[req[r].battle_id].traditional_history # <<>>
    /\ req[r].pre[req[r].battle_id].ralph_state_file # <<>>
    /\ \E a \in AgentTypes :
         req[r].pre[req[r].battle_id].battle[AgentKey(a)].status = "completed"

\* C21: a winner that is set (traditional or ralph) is not none after any
\* step that is not a reset of its battle: no start and no iterate, failed
\* or successful, blocking or streaming, clears it.
C21_WinnerNotCleared ==
  [][ \A b \in DOMAIN active_battles :
        (active_battles[b].battle.winner \in AgentTypes /\ ~IsReset(b))
          => active_battles'[b].battle.winner \in AgentTypes ]_vars

\* an iterate has recorded an Iteration on a battle that had a winner and
\* has completed the battle; the winner is still set
C21_Witness ==
  \E r \in Slots :
    /\ req[r].kind \in IterateKinds /\ req[r].mutated
    /\ req[r].pre[req[r].battle_id].battle.winner \in AgentTypes
    /\ active_battles[req[r].battle_id].battle.status = "completed"
    /\ active_battles[req[r].battle_id].battle.winner \in AgentTypes

\* the request in slot r is an iterate that has recorded its Iteration
HasRecorded(r) == req[r].kind \in IterateKinds /\ req[r].mutated

\* the Iteration the request in slot r has recorded
RecordedBy(r) ==
  AgentOf(req[r].battle_id, req[r].agent_type).iterations[req[r].current_iteration]

\* C22: the status recorded for a response is decided by the number of
\* criteria it meets, the number of criteria of the task and whether it has
\* code: success iff it has code and meets at least 0.7 of the criteria,
\* partial iff it has code and meets at least 0.4 but less than 0.7 of
\* them, failure otherwise.  A response without code is a failure, and so
\* is one with code that meets one criterion of three.
C22_StatusFromCounts ==
  \A r \in Slots :
    HasRecorded(r) =>
      LET response == req[r].full_response
          task == TASKS[active_battles[req[r].battle_id].battle.task_id]
          met_count == CriteriaMet(response, task)
          criteria_count == Len(task.acceptance_criteria)
          has_code == \E m \in CodeMarkers : Occurs(m, response)
          status == RecordedBy(r).status
      IN  /\ status = "success" <=>
               (has_code /\ 10 * met_count >= 7 * criteria_count)
          /\ status = "partial" <=>
               ( /\ has_code
                 /\ 10 * met_count >= 4 * criteria_count
                 /\ 10 * met_count < 7 * criteria_count )
          /\ status = "failure" <=>
               ~(has_code /\ 10 * met_count >= 4 * criteria_count)
          /\ ~has_code => status = "failure"
          /\ (has_code /\ criteria_count = 3 /\ met_count = 1) => status = "failure"

\* a response without code that meets every criterion of its task has been
\* recorded
C22_Witness ==
  \E r \in Slots :
    /\ HasRecorded(r)
    /\ LET response == req[r].full_response
           task == TASKS[active_battles[req[r].battle_id].battle.task_id]
       IN  /\ CriteriaMet(response, task) = Len(task.acceptance_criteria)
           /\ \A m \in CodeMarkers : ~Occurs(m, response)
    /\ RecordedBy(r).status = "failure"

\* the stream in slot r has yielded an event of the given type
HasEvent(r, type) == \E i \in DOMAIN req[r].events : req[r].events[i].type = type

\* C23: when a stream has yielded complete, its Iteration is in the agent's
\* list, the agent and the battle are as the event reports them, and the
\* write of the battle row has returned (the row, if there is one, holds the
\* battle); when the write has raised, the stream has yielded error and no
\* complete.
C23_CompleteAfterPersist ==
  \A r \in Slots :
    req[r].kind = "stream" =>
      /\ HasEvent(r, "complete") =>
           LET b == req[r].battle_id
               battle == active_battles[b].battle
               agent_state == AgentOf(b, req[r].agent_type)
               complete == req[r].events[Len(req[r].events)]
           IN  /\ req[r].mutated /\ req[r].failure = "none"
               /\ Len(agent_state.iterations) = req[r].current_iteration
               /\ complete.type = "complete"
               /\ complete.iteration = agent_state.iterations[req[r].current_iteration]
               /\ complete.agent_state = agent_state
               /\ complete.battle_status = battle.status
               /\ complete.winner = battle.winner
               /\ b \in DOMAIN db => db[b] = Row(battle)
      /\ req[r].failure = "persistence" =>
           /\ ~HasEvent(r, "complete")
           /\ req[r].events[Len(req[r].events)].type = "error"

\* a stream has ended whose write of the row raised after the Iteration was
\* recorded
C23_Witness ==
  \E r \in Slots :
    /\ req[r].kind = "stream" /\ req[r].pc = "done"
    /\ req[r].failure = "persistence" /\ req[r].mutated
    /\ HasEvent(r, "error")

\* C25: the step in which a client is rejected reports remaining 0 and a
\* Retry-After that is the time until the oldest admitted request in the
\* client's window leaves it, rounded up to whole seconds, so at least 1 and
\* at most 3600.
C25_RetryAfterIsCeiling ==
  [][ \A ip \in Clients :
        (observed'[ip] # observed[ip] /\ ~observed'[ip].last.is_allowed) =>
          LET log == observed[ip].admitted
              in_window == { log[i] : i \in { j \in DOMAIN log :
                                               log[j] > now - Window * TicksPerSecond } }
              oldest == CHOOSE x \in in_window : \A y \in in_window : x <= y
              left == Window * TicksPerSecond - (now - oldest)
              retry_after == observed'[ip].last.reset_time
          IN  /\ check_rate_limit(ip, TRUE).remaining = 0
              /\ retry_after * TicksPerSecond >= left
              /\ (retry_after - 1) * TicksPerSecond < left
              /\ retry_after >= 1 /\ retry_after <= Window
              /\ \E r \in Slots : req'[r].result = 429
                                  /\ req'[r].retry_after = retry_after ]_vars

\* an agent without its token and time figures
WithoutUsage(agent_state) ==
  [agent_state EXCEPT
     !.iterations = [i \in DOMAIN @ |->
                       [@[i] EXCEPT !.tokens_used = 0, !.time_taken_ms = 0]],
     !.total_tokens = 0, !.total_time_ms = 0]

\* a battle with its working state, without the token and time figures
SameButUsage(battle_data) ==
  [battle_data EXCEPT
     !.battle.traditional_agent = WithoutUsage(@),
     !.battle.ralph_agent = WithoutUsage(@)]

\* C26: what a streaming iterate has recorded is what the blocking iterate
\* records from the same battle, for the same agent and the same completion
\* text: the same iteration_number, status, code_snippet and context_size,
\* the same agent status, counters and current_context_size, the same
\* traditional_history and ralph_state_file, the same battle status and
\* winner; only tokens_used, total_tokens and the times may differ.
C26_StreamRecordsAsBlocking ==
  \A r \in Slots :
    HasRecorded(r) =>
      LET b == req[r].battle_id
          response == [ content |-> req[r].full_response,
                        total_tokens |-> RecordedBy(r).tokens_used,
                        ms |-> RecordedBy(r).time_taken_ms ]
          blocking == iterate_agent_outcome(req[r].pre[b], req[r].agent_type, response)
      IN  /\ req[r].kind = "blocking" => active_battles[b] = blocking
          /\ req[r].kind = "stream" =>
               SameButUsage(active_battles[b]) = SameButUsage(blocking)

\* a stream has recorded the third Iteration of an agent with token figures
\* the provider did not report
C26_Witness ==
  \E r \in Slots :
    /\ HasRecorded(r) /\ req[r].kind = "stream"
    /\ req[r].current_iteration = 3
    /\ \A c \in Completions : c.content = req[r].full_response
                                => c.total_tokens # RecordedBy(r).tokens_used

\* C27: with the calls made one at a time, traditional_history has one entry
\* for each Iteration of the traditional agent, in the same order: the i-th
\* entry has the status of the i-th Iteration (and the response that
\* Iteration's message was cut from).
C27_HistoryMatchesIterations ==
  \A b \in DOMAIN active_battles :
    LET history == active_battles[b].traditional_history
        iterations == AgentOf(b, "traditional").iterations
    IN  /\ Len(history) = Len(iterations)
        /\ \A i \in DOMAIN history :
             /\ history[i].status = iterations[i].status
             /\ TruncateMessage(history[i].response) = iterations[i].message

\* the traditional agent holds two Iterations of different status and the
\* ralph agent has iterated as well
C27_Witness ==
  \E b \in DOMAIN active_battles :
    /\ Len(active_battles[b].traditional_history) = 2
    /\ active_battles[b].traditional_history[1].status
         # active_battles[b].traditional_history[2].status
    /\ AgentOf(b, "ralph").iterations # <<>>

\* C28: in every step that is not a reset of its battle, the Iterations an
\* agent holds stay as they are, in place; the step in which an iterate
\* records adds one Iteration at the end of its agent's list and no other
\* step adds any; once an iterate has recorded, the list it found is the
\* list without its last element.
C28_IterationsAppendOnly ==
  [][ /\ \A b \in DOMAIN active_battles, a \in AgentTypes :
           ~IsReset(b) =>
             LET old == AgentOf(b, a).iterations
                 new == active_battles'[b].battle[AgentKey(a)].iterations
                 records == \E r \in Slots :
                              /\ req[r].kind \in IterateKinds
                              /\ req[r].battle_id = b /\ req[r].agent_type = a
                              /\ ~req[r].mutated /\ req'[r].mutated
             IN  /\ Len(new) = IF records THEN Len(old) + 1 ELSE Len(old)
                 /\ SubSeq(new, 1, Len(old)) = old
      /\ \A r \in Slots :
           (req'[r].kind \in IterateKinds /\ req'[r].mutated) =>
             LET found == req'[r].pre[req'[r].battle_id]
                            .battle[AgentKey(req'[r].agent_type)].iterations
                 new == active_battles'[req'[r].battle_id]
                          .battle[AgentKey(req'[r].agent_type)].iterations
             IN  Len(new) = Len(found) + 1 /\ SubSeq(new, 1, Len(found)) = found
    ]_vars

\* a blocking iterate has returned 200 after it added the third Iteration
\* to the two its agent held
C28_Witness ==
  \E r \in Slots :
    /\ req[r].kind = "blocking" /\ req[r].pc = "done" /\ req[r].result = 200
    /\ Len(req[r].pre[req[r].battle_id].battle[AgentKey(req[r].agent_type)].iterations) = 2
    /\ Len(AgentOf(req[r].battle_id, req[r].agent_type).iterations) = 3

RECURSIVE SumOver(_, _)
\* the sum of a field over a list of Iterations
SumOver(iterations, field) ==
  IF iterations = <<>> THEN 0
  ELSE Head(iterations)[field] + SumOver(Tail(iterations), field)

\* C29: in every state each agent's total_tokens is the sum of tokens_used
\* over its Iterations, its total_time_ms is the sum of their time_taken_ms,
\* and its current_context_size is the context_size of its last Iteration,
\* 0 when it has none.
C29_TotalsMatchIterations ==
  \A b \in DOMAIN active_battles, a \in AgentTypes :
    LET agent_state == AgentOf(b, a)
        iterations == agent_state.iterations
    IN  /\ agent_state.total_tokens = SumOver(iterations, "tokens_used")
        /\ agent_state.total_time_ms = SumOver(iterations, "time_taken_ms")
        /\ agent_state.current_context_size =
             IF iterations = <<>> THEN 0
             ELSE iterations[Len(iterations)].context_size

\* a ralph agent holds three Iterations, the last with a smaller context
\* than the one before it
C29_Witness ==
  \E b \in DOMAIN active_battles :
    LET iterations == AgentOf(b, "ralph").iterations IN
    /\ Len(iterations) = 3
    /\ iterations[3].context_size < iterations[2].context_size
    /\ AgentOf(b, "ralph").total_tokens > iterations[3].tokens_used

\* C24: when two iterate calls for the same agent of a battle, each of which
\* numbered its Iteration before the other recorded, have both finished, the
\* agent's Iterations are numbered 1, 2, ..., k in list order, and its
\* totals, its counters and traditional_history account for each of them
\* once.
C24_OverlapKeepsAccounts ==
  \A r1 \in Slots, r2 \in Slots :
    ( /\ r1 # r2
      /\ req[r1].pc = "done" /\ req[r2].pc = "done"
      /\ HasRecorded(r1) /\ HasRecorded(r2)
      /\ req[r1].battle_id = req[r2].battle_id
      /\ req[r1].agent_type = req[r2].agent_type
      /\ req[r1].current_iteration = req[r2].current_iteration )
    => LET b == req[r1].battle_id
           agent_state == AgentOf(b, req[r1].agent_type)
           iterations == agent_state.iterations
           history == active_battles[b].traditional_history
       IN  /\ \A i \in DOMAIN iterations : iterations[i].iteration_number = i
           /\ agent_state.total_tokens = SumOver(iterations, "tokens_used")
           /\ agent_state.total_time_ms = SumOver(iterations, "time_taken_ms")
           /\ agent_state.success_count =
                2 * CountStatus(agent_state, "success")
                + CountStatus(agent_state, "partial")
           /\ agent_state.failure_count = CountStatus(agent_state, "failure")
           /\ req[r1].agent_type = "traditional" =>
                /\ Len(history) = Len(iterations)
                /\ \A i \in DOMAIN history : history[i].status = iterations[i].status

\* C30: when an iterate records after a reset of its battle has completed
\* while it was in flight, the agent holds nothing of what the reset
\* discarded: its list is the Iteration just recorded, its totals are that
\* Iteration's figures and its counters count that Iteration alone.
C30_ResetDiscardsForGood ==
  [][ \A r \in Slots :
        ( /\ req[r].kind \in IterateKinds
          /\ ~req[r].mutated /\ req'[r].mutated
          /\ req[r].agent_state # <<>> )
        => LET after == active_battles'[req[r].battle_id]
                          .battle[AgentKey(req[r].agent_type)]
               iteration == req'[r].iteration[1]
           IN  /\ after.iterations = <<iteration>>
               /\ after.total_tokens <= iteration.tokens_used
               /\ after.total_time_ms <= iteration.time_taken_ms
               /\ after.success_count + 2 * after.failure_count <= 2 ]_vars

\* C31: when a create, a start, a reset or an iterate has returned
\* successfully (200, or the complete event of a stream), the row of the
\* battle holds the battle as it is in memory: both agents with their status
\* and Iterations, the status and the winner.
C31_RowEqualsBattle ==
  \A r \in Slots :
    ( /\ req[r].pc = "done"
      /\ req[r].kind \in {"create", "start", "reset"} \cup IterateKinds
      /\ req[r].result = 200
      /\ req[r].kind = "stream" => HasEvent(r, "complete") )
    => /\ req[r].battle_id \in DOMAIN db
       /\ db[req[r].battle_id] = Row(active_battles[req[r].battle_id].battle)

\* C32: in every state, a battle with an agent whose status is completed
\* has a winner.
C32_CompletedAgentHasWinner ==
  \A b \in DOMAIN active_battles :
    (\E a \in AgentTypes : AgentOf(b, a).status = "completed")
      => active_battles[b].battle.winner \in AgentTypes

\* the agent that is not the winner is completed while the winner, set to
\* running again by a start, is not
C32_Witness ==
  \E b \in DOMAIN active_battles, a \in AgentTypes :
    /\ AgentOf(b, a).status = "completed"
    /\ active_battles[b].battle.winner \in AgentTypes \ {a}
    /\ active_battles[b].battle[OtherAgent(a)].status = "running"

\* C33: the bucket of every client holds one timestamp for each of its
\* admitted iterate requests that is still in the window of its last
\* request, whatever became of them; the request being served, whether it
\* was answered 404 or 400, failed upstream or ended its stream with an
\* error, has its timestamp in the bucket of the client that made it.
C33_AdmittedSlotStaysConsumed ==
  /\ \A ip \in DOMAIN rate_limit_store :
       rate_limit_store[ip] =
         SelectSeq(observed[ip].admitted,
                   LAMBDA t : t > observed[ip].last.at - Window * TicksPerSecond)
  /\ \A r \in Slots :
       (req[r].kind \in IterateKinds /\ req[r].result # 429) =>
         \E ip \in DOMAIN rate_limit_store :
           /\ observed[ip].last.is_allowed /\ observed[ip].last.at = now
           /\ rate_limit_store[ip] # <<>>
           /\ rate_limit_store[ip][Len(rate_limit_store[ip])] = now

\* a stream that was admitted as the last request its client is allowed in
\* the window has ended with an upstream error and recorded nothing
C33_Witness ==
  \E r \in Slots, ip \in DOMAIN rate_limit_store :
    /\ req[r].kind = "stream" /\ req[r].pc = "done" /\ req[r].failure = "upstream"
    /\ observed[ip].last.at = now /\ now > 0
    /\ Len(rate_limit_store[ip]) = RATE_LIMIT_REQUESTS_PER_HOUR
    /\ Recorded = 0

\* the frames of the stream in slot r from the one after position i on
After(r, i) == SubSeq(req[r].events, i + 1, Len(req[r].events))

\* the keep-alive frames the stream in slot r has yielded
KeepAlives(r) ==
  Len(SelectSeq(req[r].events, LAMBDA e : e.type = "keep-alive"))

\* the order of frames but for what follows a keep-alive: the first frame
\* is start, nothing follows complete or error, a keep-alive that ends the
\* frames is being sent or was cut short by the client, and every tick is
\* either a frame already or still in the queue
KeepAliveFrame(r) ==
  /\ \A i \in DOMAIN req[r].events :
       /\ req[r].events[i].type = "start" <=> i = 1
       /\ req[r].events[i].type \in {"complete", "error"} => After(r, i) = <<>>
       /\ (req[r].events[i].type = "keep-alive" /\ After(r, i) = <<>>) =>
            \/ req[r].pc = "yield_heartbeat"
            \/ req[r].cancelled
  /\ KeepAlives(r) + req[r].heartbeat_queue = req[r].ticks

\* C34 as stated: on a streaming iterate the keep-alive frames come after
\* start and before the terminal event, each one immediately ahead of a
\* chunk; a tick with no chunk after it is never delivered and nothing
\* follows complete or error.
C34_KeepAliveAheadOfChunk ==
  \A r \in Slots :
    /\ KeepAliveFrame(r)
    /\ \A i \in DOMAIN req[r].events :
         (req[r].events[i].type = "keep-alive" /\ After(r, i) # <<>>) =>
           req[r].events[i + 1].type = "chunk"

\* C34 amended: the keep-alive frames come after start and before the
\* terminal event, in runs of one or more that end immediately ahead of a
\* chunk; a tick with no chunk after it is never delivered and nothing
\* follows complete or error.
C34_KeepAlivesAheadOfChunk ==
  \A r \in Slots :
    /\ KeepAliveFrame(r)
    /\ \A i \in DOMAIN req[r].events :
         (req[r].events[i].type = "keep-alive" /\ After(r, i) # <<>>) =>
           req[r].events[i + 1].type \in {"keep-alive", "chunk"}

\* a stream has completed after two keep-alives in a row ahead of a chunk,
\* with one more tick left in the queue
C34_Witness ==
  \E r \in Slots :
    /\ req[r].pc = "done" /\ HasEvent(r, "complete")
    /\ req[r].heartbeat_queue > 0
    /\ \E i \in DOMAIN req[r].events :
         /\ i + 2 \in DOMAIN req[r].events
         /\ req[r].events[i].type = "keep-alive"
         /\ req[r].events[i + 1].type = "keep-alive"
         /\ req[r].events[i + 2].type = "chunk"

====
